---- MODULE Spec2Model ----
(***************************************************************************)
(* The shortest-path engine of swaply: classicDijkstra (binary min-heap    *)
(* with decrease-key and a hop cap) and psbDijkstra (BMSSP recursion with  *)
(* findPivots), both over a RouteGraph whose edges carry a rate and a gas  *)
(* penalty.                                                                *)
(*                                                                         *)
(* Numbers.  The code computes in IEEE doubles.  Here a weight is an       *)
(* integer number of units of ln 2: a rate is carried as a multiple of     *)
(* 1/FixedOne and is a power of two, so that -Math.log(rate) is            *)
(* Log2(FixedOne) - Log2(rate) units; gas is a whole number of units.      *)
(* Infinity and Number.MAX_VALUE / 2 are two large values, and FAdd adds   *)
(* as doubles do around them.                                              *)
(*                                                                         *)
(* Also the two transaction watchers: TransactionMonitor.monitorTransaction *)
(* (an interval timer, a timeout timer and the status requests in flight)  *)
(* and BlockscoutAPI.waitForTransaction (a polling loop).                  *)
(***************************************************************************)
EXTENDS Integers, Sequences, FiniteSets, TLC

VARIABLES
    graph, source, target, maxHops,      \* the arguments of both calls
    pc,                                  \* which call runs: "classic", "psb", "done"
    \* classicDijkstra
    cpc,                                 \* "loop", "check", "walk", "done"
    dist, prev, hopCount, visited, pq,
    current, path, steps,
    classicResult,
    \* psbDijkstra
    ppc,                                 \* "run", "check", "walk", "done"
    psbDist, psbPrev, completed,
    stack, ret,
    psbCurrent, psbPath, psbSteps,
    psbResult,
    psbMaxHops,                          \* the maxHops argument of the psb call
    psbFirst,                            \* the outcome of an earlier psb call
    \* a MinHeap driven call by call
    call, before, returned,              \* the last call, the heap before it,
                                         \* what it returned
    \* TransactionMonitor.monitorTransaction
    interval, timeout,                   \* the two timers: "none", "set", "cleared" / "fired"
    ticks,                               \* how often the interval callback has run
    inFlight,                            \* getTransactionStatus requests not yet settled
    txStatus,                            \* the transaction on chain
    callbacks,                           \* the callbacks invoked so far, in order
    \* BlockscoutAPI.waitForTransaction
    maxAttempts, attempt,                \* the argument and the loop variable i
    wpc,                                 \* "idle", "poll", "sleep", "returned", "thrown"
    polled,                              \* what each getTransaction so far gave
    thrown                               \* the message of the error thrown

inputs == <<graph, source, target, maxHops>>
hvars == <<call, before, returned>>
rvars == <<psbMaxHops, psbFirst>>
cvars == <<cpc, dist, prev, hopCount, visited, pq, current, path, steps, classicResult>>
pvars == <<ppc, psbDist, psbPrev, completed, stack, ret, psbCurrent, psbPath, psbSteps, psbResult>>
mvars == <<interval, timeout, ticks, inFlight, txStatus, callbacks>>
wvars == <<maxAttempts, attempt, wpc, polled, thrown>>
vars == <<inputs, pc, cvars, pvars, rvars, hvars, mvars, wvars>>

-----------------------------------------------------------------------------
(* Bounds of the model *)

\* maxHops ranges over 1 .. MaxHops
MaxHops == 2
\* the longest list of parallel edges between one pair of vertices
MaxParallel == 2
\* the priorities given to a MinHeap driven call by call are -1 .. MaxPriority
MaxPriority == 1
\* the back-walk over prev records its MaxWalk newest entries; a walk
\* that long has entered a cycle of prev and never ends
MaxWalk == 6
\* the vertex counts for which the top-level recursion level is computed are
\* 2 .. MaxKeys
MaxKeys == 64
\* the interval callback of monitorTransaction runs at most MaxTicks times
MaxTicks == 3
\* the maxAttempts argument of waitForTransaction ranges over 1 .. MaxAttempts
MaxAttempts == 4

-----------------------------------------------------------------------------
(* Numbers *)

Infinity == 1000000
MaxValueHalf == 1000
FixedOne == 2

Null == "null"
Undefined == "undefined"

Units(x) == IF x >= MaxValueHalf THEN x \div MaxValueHalf ELSE 0

\* a + b in doubles: Infinity absorbs, MAX_VALUE / 2 absorbs every small
\* number, MAX_VALUE / 2 + MAX_VALUE / 2 is MAX_VALUE and anything larger
\* overflows to Infinity
FAdd(a, b) ==
    IF a = Infinity \/ b = Infinity THEN Infinity
    ELSE IF a >= MaxValueHalf \/ b >= MaxValueHalf
         THEN IF Units(a) + Units(b) > 2 THEN Infinity
              ELSE (Units(a) + Units(b)) * MaxValueHalf
         ELSE a + b

RECURSIVE Log2(_)
Log2(r) == IF r <= 1 THEN 0 ELSE 1 + Log2(r \div 2)

\* -Math.log(rate), in units of ln 2
NegLog(rate) == Log2(FixedOne) - Log2(rate)

RECURSIVE Pow2(_)
Pow2(e) == IF e <= 0 THEN 1 ELSE 2 * Pow2(e - 1)

NaN == "NaN"

\* Math.exp(-w) for w in units of ln 2, as the fraction <<numerator,
\* denominator>>: 0 by underflow from MAX_VALUE / 2 on
Exp(w) ==
    IF w >= MaxValueHalf THEN <<0, 1>>
    ELSE IF w >= 0 THEN <<1, Pow2(w)>>
    ELSE <<Pow2(-w), 1>>

-----------------------------------------------------------------------------
(* The graph model *)

Has(f, k) == k \in DOMAIN f

Put(f, k, v) == [x \in DOMAIN f \cup {k} |-> IF x = k THEN v ELSE f[x]]

Remove(f, k) == [x \in DOMAIN f \ {k} |-> f[x]]

\* graph[u] || []
Adj(g, u) == IF Has(g, u) THEN g[u] ELSE <<>>

\* the weight a relaxation gives an edge
RelaxWeight(edge) ==
    IF edge.rate > 0 THEN NegLog(edge.rate) + edge.gas ELSE MaxValueHalf

\* a step weight that leaves the gas out
StepWeightNoGas(edge) ==
    IF edge.rate > 0 THEN NegLog(edge.rate) ELSE 0

\* the weight path reconstruction records in a step
StepWeight(edge) ==
    IF edge.rate > 0 THEN NegLog(edge.rate) + edge.gas ELSE 0

\* graph[prevToken].find(e => e.target === current): the index of the first
\* such edge, 0 when there is none
RECURSIVE FindFrom(_, _, _)
FindFrom(edges, v, i) ==
    IF i > Len(edges) THEN 0
    ELSE IF edges[i].target = v THEN i
    ELSE FindFrom(edges, v, i + 1)

\* the index of the last edge to v, 0 when there is none
FindLastEdge(edges, v) ==
    IF \E i \in 1 .. Len(edges) : edges[i].target = v
    THEN CHOOSE i \in 1 .. Len(edges) :
            /\ edges[i].target = v
            /\ \A j \in 1 .. Len(edges) : edges[j].target = v => j <= i
    ELSE 0

FindEdge(edges, v) == FindFrom(edges, v, 1)

-----------------------------------------------------------------------------
(* MinHeap: heap is the array (slot i of the code is heap[i + 1]),         *)
(* positions the map from token to slot                                    *)

EmptyHeap == [heap |-> <<>>, positions |-> <<>>]

At(h, i) == h.heap[i + 1]

parent(i) == (i - 1) \div 2
leftChild(i) == 2 * i + 1
rightChild(i) == 2 * i + 2

\* a swap that leaves the position map as it was
swapHeapOnly(h, i, j) ==
    [heap |-> [h.heap EXCEPT ![i + 1] = h.heap[j + 1], ![j + 1] = h.heap[i + 1]],
     positions |-> h.positions]

swap(h, i, j) ==
    LET nh == [h.heap EXCEPT ![i + 1] = h.heap[j + 1], ![j + 1] = h.heap[i + 1]]
    IN  [heap |-> nh,
         positions |-> Put(Put(h.positions, nh[i + 1].token, i), nh[j + 1].token, j)]

\* an entry that is never moved up
heapifyUpNone(h, i) == h

RECURSIVE heapifyUp(_, _)
heapifyUp(h, i) ==
    IF i > 0 /\ At(h, i).dist < At(h, parent(i)).dist
    THEN heapifyUp(swap(h, i, parent(i)), parent(i))
    ELSE h

\* an entry that is never moved down
heapifyDownNone(h, i) == h

RECURSIVE heapifyDown(_, _)
heapifyDown(h, i) ==
    LET n == Len(h.heap)
        left == leftChild(i)
        right == rightChild(i)
        m1 == IF left < n /\ At(h, left).dist < At(h, i).dist THEN left ELSE i
        minIndex == IF right < n /\ At(h, right).dist < At(h, m1).dist THEN right ELSE m1
    IN  IF i # minIndex THEN heapifyDown(swap(h, i, minIndex), minIndex) ELSE h

insert(h, token, d) ==
    LET pos == Len(h.heap)
    IN  heapifyUp([heap |-> Append(h.heap, [token |-> token, dist |-> d]),
                   positions |-> Put(h.positions, token, pos)], pos)

\* [min, none, pq]: the entry returned (Null on an empty heap, and none is
\* TRUE) and the heap left
extractMin(h) ==
    IF Len(h.heap) = 0 THEN [min |-> Null, none |-> TRUE, pq |-> h]
    ELSE LET min == h.heap[1]
             last == h.heap[Len(h.heap)]
             popped == [heap |-> SubSeq(h.heap, 1, Len(h.heap) - 1),
                        positions |-> h.positions]
             moved == IF Len(popped.heap) > 0
                      THEN heapifyDown([heap |-> [popped.heap EXCEPT ![1] = last],
                                        positions |-> Put(popped.positions, last.token, 0)], 0)
                      ELSE popped
         IN  [min |-> min, none |-> FALSE,
              pq |-> [heap |-> moved.heap, positions |-> Remove(moved.positions, min.token)]]

\* a decreaseKey that always appends a new entry
decreaseKeyAppend(h, token, newDist) == insert(h, token, newDist)

decreaseKey(h, token, newDist) ==
    IF ~Has(h.positions, token) THEN insert(h, token, newDist)
    ELSE LET pos == h.positions[token]
         IN  IF newDist < At(h, pos).dist
             THEN heapifyUp([h EXCEPT !.heap[pos + 1].dist = newDist], pos)
             ELSE h

isEmpty(h) == Len(h.heap) = 0

-----------------------------------------------------------------------------
(* The inputs: families of graphs with a source, a target and a hop cap *)

Tokens == {"A", "B", "C", "D"}

Hops == 1 .. MaxHops

None == [kind |-> "none", rate |-> 0, gas |-> 0]

Attr(kind, rate, gas) == [kind |-> kind, rate |-> rate, gas |-> gas]

MkEdge(v, a) == [target |-> v, kind |-> a.kind, rate |-> a.rate, gas |-> a.gas]

\* the adjacency list of u: the slots that leave u and are filled, in slot order
RECURSIVE AdjOf(_, _, _, _)
AdjOf(slots, fill, u, i) ==
    IF i > Len(slots) THEN <<>>
    ELSE IF slots[i][1] = u /\ fill[i] # None
         THEN <<MkEdge(slots[i][2], fill[i])>> \o AdjOf(slots, fill, u, i + 1)
         ELSE AdjOf(slots, fill, u, i + 1)

GraphOf(keys, slots, fill) == [u \in keys |-> AdjOf(slots, fill, u, 1)]

Fills(slots, attrs) == [1 .. Len(slots) -> attrs \cup {None}]

Input(g, s, t, h) == [graph |-> g, source |-> s, target |-> t, maxHops |-> h]

\* three keys, every edge between two of them absent, of rate 1 or of rate 2:
\* cycles of weight zero and of negative weight
CyclicSlots == << <<"A", "B">>, <<"A", "C">>, <<"B", "A">>, <<"B", "C">>,
                 <<"C", "A">>, <<"C", "B">> >>
CyclicAttrs == {Attr("swap", 2, 0), Attr("swap", 4, 0)}
CyclicInputs ==
    {Input(GraphOf({"A", "B", "C"}, CyclicSlots, f), "A", t, h) :
        f \in Fills(CyclicSlots, CyclicAttrs), t \in {"A", "B", "C"}, h \in Hops}

\* four keys, forward edges of weight 0, 1 or 2
DagSlots == << <<"A", "B">>, <<"A", "C">>, <<"A", "D">>, <<"B", "C">>,
              <<"B", "D">>, <<"C", "D">> >>
DagAttrs == {Attr("swap", 2, 0), Attr("swap", 1, 0), Attr("bridge", 1, 1)}
DagInputs ==
    {Input(GraphOf(Tokens, DagSlots, f), "A", "D", h) :
        f \in Fills(DagSlots, DagAttrs), h \in Hops}

\* three keys, edges of weight 0 or 1 out of A and between B and C
TriangleSlots == << <<"A", "B">>, <<"A", "C">>, <<"B", "C">>, <<"C", "B">> >>
TriangleAttrs == {Attr("swap", 2, 0), Attr("swap", 1, 0)}
TriangleInputs ==
    {Input(GraphOf({"A", "B", "C"}, TriangleSlots, f), "A", t, h) :
        f \in Fills(TriangleSlots, TriangleAttrs), t \in {"B", "C"}, h \in Hops}

\* parallel edges A -> B, then B -> C or nothing
ParallelAttrs == {Attr(k, r, 0) : k \in {"swap", "bridge"}, r \in {1, 2, 4}}
ParallelLists ==
    UNION {[1 .. n -> {MkEdge("B", a) : a \in ParallelAttrs}] : n \in 1 .. MaxParallel}
ParallelInputs ==
    {Input([u \in {"A", "B", "C"} |->
               IF u = "A" THEN l ELSE IF u = "B" THEN b ELSE <<>>], "A", t, h) :
        l \in ParallelLists,
        b \in {<<>>, <<MkEdge("C", Attr("swap", 2, 0))>>},
        t \in {"B", "C"}, h \in Hops}

\* graphs in which some of A, B, C are not keys; any source and target
PartialSlots(keys) ==
    IF keys = {"A"} THEN << <<"A", "B">>, <<"A", "C">> >>
    ELSE IF keys = {"B"} THEN << <<"B", "A">>, <<"B", "C">> >>
    ELSE IF keys = {"A", "B"} THEN << <<"A", "B">>, <<"A", "C">>, <<"B", "A">>, <<"B", "C">> >>
    ELSE << <<"B", "A">>, <<"B", "C">>, <<"C", "A">>, <<"C", "B">> >>
PartialInputs ==
    {Input(GraphOf(p[1], PartialSlots(p[1]), p[2]), s, t, h) :
        p \in UNION {{<<keys, f>> : f \in Fills(PartialSlots(keys), {Attr("swap", 2, 0)})} :
                        keys \in {{"A"}, {"B"}, {"A", "B"}, {"B", "C"}}},
        s \in {"A", "B", "C"}, t \in {"A", "B", "C"}, h \in Hops}

\* the chain A -> B -> C -> D with rate 0 or rate 1 on each edge
ChainSlots == << <<"A", "B">>, <<"B", "C">>, <<"C", "D">> >>
DegenerateInputs ==
    {Input(GraphOf(Tokens, ChainSlots, f), "A", t, h) :
        f \in [1 .. 3 -> {Attr("swap", 0, 0), Attr("swap", 2, 0)}],
        t \in {"B", "C", "D"}, h \in Hops \cup {MaxHops + 1}}

\* The scenario of the pruning hop cap: A -> B -> C -> D -> E with rate 10 on
\* each edge and the direct edge A -> E of rate 100, maxHops 2 or 4.  The
\* weights are -ln 10 and -2 ln 10; a rate 10^e is carried as 2^e, which
\* scales every weight by the same positive factor.
PruneGraph ==
    [A |-> <<MkEdge("B", Attr("swap", 2 * FixedOne, 0)),
             MkEdge("E", Attr("swap", 4 * FixedOne, 0))>>,
     B |-> <<MkEdge("C", Attr("swap", 2 * FixedOne, 0))>>,
     C |-> <<MkEdge("D", Attr("swap", 2 * FixedOne, 0))>>,
     D |-> <<MkEdge("E", Attr("swap", 2 * FixedOne, 0))>>,
     E |-> <<>>]
PruneInputs == {Input(PruneGraph, "A", "E", h) : h \in {2, 4}}

\* The scenario of the linear chain: A -> B (rate 2), B -> C (rate 3),
\* C -> D (rate 5), maxHops 4.  The weights -ln 2, -ln 3, -ln 5 are carried
\* as -2, -3, -4 units, which order every sum of them as the logarithms do
\* (2 < 3 < 4 < 2 + 3 < 2 + 4 < 3 + 4 < 2 + 3 + 4).
LinearGraph ==
    [A |-> <<MkEdge("B", Attr("swap", 4 * FixedOne, 0))>>,
     B |-> <<MkEdge("C", Attr("swap", 8 * FixedOne, 0))>>,
     C |-> <<MkEdge("D", Attr("swap", 16 * FixedOne, 0))>>,
     D |-> <<>>]
LinearInputs == {Input(LinearGraph, "A", "D", 4)}

\* graphs of eight keys, the fewest for which psbDijkstra recurses through
\* two levels: edges among A, B, C of weight 0 or ln 2, the other keys
\* without edges
DeepKeys == {"A", "B", "C", "D", "E", "F", "G", "H"}
DeepSlots == << <<"A", "B">>, <<"B", "B">>, <<"B", "C">>, <<"C", "B">> >>
DeepInputs ==
    {Input(GraphOf(DeepKeys, DeepSlots, f), "A", t, h) :
        f \in Fills(DeepSlots, TriangleAttrs), t \in {"B", "C"}, h \in Hops}

Inputs == CyclicInputs \cup DagInputs \cup TriangleInputs \cup ParallelInputs
              \cup PartialInputs \cup DegenerateInputs \cup PruneInputs
              \cup LinearInputs \cup DeepInputs

Pending == [status |-> "pending"]

NoCall == [op |-> "none", token |-> Null, dist |-> 0]
Void == [none |-> TRUE, min |-> Null]

\* nothing has run yet
Idle ==
    /\ cpc = "start"
    /\ dist = <<>> /\ prev = <<>> /\ hopCount = <<>>
    /\ visited = {} /\ pq = EmptyHeap
    /\ current = Null /\ path = <<>> /\ steps = <<>>
    /\ classicResult = Pending
    /\ ppc = "start"
    /\ psbDist = <<>> /\ psbPrev = <<>> /\ completed = {}
    /\ stack = <<>> /\ ret = [boundaryReached |-> Infinity, completedVertices |-> <<>>]
    /\ psbCurrent = Null /\ psbPath = <<>> /\ psbSteps = <<>>
    /\ psbResult = Pending
    /\ psbFirst = Pending
    /\ call = NoCall /\ before = EmptyHeap /\ returned = Void
    /\ interval = "none" /\ timeout = "none" /\ ticks = 0 /\ inFlight = 0
    /\ txStatus = "pending" /\ callbacks = <<>>
    /\ maxAttempts = 0 /\ attempt = 0 /\ wpc = "idle" /\ polled = <<>> /\ thrown = Null

Init ==
    /\ \E in \in Inputs :
          /\ graph = in.graph
          /\ source = in.source
          /\ target = in.target
          /\ maxHops = in.maxHops
          /\ psbMaxHops = in.maxHops
    /\ pc = "classic"
    /\ Idle

-----------------------------------------------------------------------------
(* classicDijkstra *)

\* initialise dist, prev and hopCount over the keys; insert the source
ClassicStart ==
    /\ pc = "classic" /\ cpc = "start"
    /\ dist' = Put([t \in DOMAIN graph |-> Infinity], source, 0)
    /\ prev' = [t \in DOMAIN graph |-> Null]
    /\ hopCount' = Put([t \in DOMAIN graph |-> Infinity], source, 0)
    /\ pq' = insert(EmptyHeap, source, 0)
    /\ cpc' = "loop"
    /\ UNCHANGED <<inputs, mvars, wvars, hvars, rvars, pc, visited, current, path, steps, classicResult, pvars>>

\* newDist < dist[v], false when dist[v] is undefined
Improves(d, v, newDist) == Has(d, v) /\ newDist < d[v]

WithinHops(newHops) == newHops <= maxHops

\* hopCount[u] + 1, forgotten: the hop count never grows
NewHopsStuck(h) == h

\* hopCount[u] + 1
NewHops(h) == h + 1

\* the relaxation records the source, not u, as the predecessor of v
relaxPrevIsSource(st, edge, u, currentDist, vis) ==
    LET v == edge.target
        newDist == FAdd(currentDist, RelaxWeight(edge))
        newHops == NewHops(st.hopCount[u])
    IN  IF v \in vis THEN st
        ELSE IF Improves(st.dist, v, newDist) /\ WithinHops(newHops)
        THEN [dist |-> Put(st.dist, v, newDist),
              prev |-> Put(st.prev, v, source),
              hopCount |-> Put(st.hopCount, v, newHops),
              pq |-> decreaseKey(st.pq, v, newDist)]
        ELSE st

\* a relaxation that does not skip visited vertices
relaxIntoVisited(st, edge, u, currentDist, vis) ==
    LET v == edge.target
        newDist == FAdd(currentDist, RelaxWeight(edge))
        newHops == NewHops(st.hopCount[u])
    IN  IF Improves(st.dist, v, newDist) /\ WithinHops(newHops)
        THEN [dist |-> Put(st.dist, v, newDist),
              prev |-> Put(st.prev, v, u),
              hopCount |-> Put(st.hopCount, v, newHops),
              pq |-> decreaseKey(st.pq, v, newDist)]
        ELSE st

\* the body of the relaxation loop for one edge of u
relax(st, edge, u, currentDist, vis) ==
    LET v == edge.target
        newDist == FAdd(currentDist, RelaxWeight(edge))
        newHops == NewHops(st.hopCount[u])
    IN  IF v \in vis THEN st
        ELSE IF Improves(st.dist, v, newDist) /\ WithinHops(newHops)
        THEN [dist |-> Put(st.dist, v, newDist),
              prev |-> Put(st.prev, v, u),
              hopCount |-> Put(st.hopCount, v, newHops),
              pq |-> decreaseKey(st.pq, v, newDist)]
        ELSE st

RECURSIVE relaxAll(_, _, _, _, _, _)
relaxAll(st, edges, i, u, currentDist, vis) ==
    IF i > Len(edges) THEN st
    ELSE relaxAll(relax(st, edges[i], u, currentDist, vis), edges, i + 1, u, currentDist, vis)

HopsExhausted(u) == hopCount[u] >= maxHops

\* one iteration of the main loop
ClassicIter ==
    /\ pc = "classic" /\ cpc = "loop" /\ ~isEmpty(pq)
    /\ LET ex == extractMin(pq)
           u == ex.min.token
           currentDist == ex.min.dist
       IN  IF u \in visited
           THEN /\ pq' = ex.pq
                /\ UNCHANGED <<cpc, dist, prev, hopCount, visited>>
           ELSE IF u = target
           THEN /\ pq' = ex.pq /\ cpc' = "check"
                /\ UNCHANGED <<dist, prev, hopCount, visited>>
           ELSE IF HopsExhausted(u)
           THEN /\ pq' = ex.pq
                /\ UNCHANGED <<cpc, dist, prev, hopCount, visited>>
           ELSE LET st == relaxAll([dist |-> dist, prev |-> prev,
                                    hopCount |-> hopCount, pq |-> ex.pq],
                                   Adj(graph, u), 1, u, currentDist, visited \cup {u})
                IN  /\ visited' = visited \cup {u}
                    /\ dist' = st.dist /\ prev' = st.prev
                    /\ hopCount' = st.hopCount /\ pq' = st.pq
                    /\ UNCHANGED cpc
    /\ UNCHANGED <<inputs, mvars, wvars, hvars, rvars, pc, current, path, steps, classicResult, pvars>>

\* the heap is empty: the loop ends
ClassicLoopEnd ==
    /\ pc = "classic" /\ cpc = "loop" /\ isEmpty(pq)
    /\ cpc' = "check"
    /\ UNCHANGED <<inputs, mvars, wvars, hvars, rvars, pc, dist, prev, hopCount, visited, pq, current, path, steps,
                   classicResult, pvars>>

NoRouteFound == [status |-> "error", error |-> "No route found"]

\* dist[target] === Infinity
Unreached(d, t) == Has(d, t) /\ d[t] = Infinity

ClassicCheck ==
    /\ pc = "classic" /\ cpc = "check"
    /\ IF Unreached(dist, target)
       THEN /\ classicResult' = NoRouteFound
            /\ cpc' = "done" /\ pc' = "psb"
            /\ UNCHANGED <<current, path, steps>>
       ELSE /\ current' = target /\ path' = <<>> /\ steps' = <<>>
            /\ cpc' = "walk"
            /\ UNCHANGED <<classicResult, pc>>
    /\ UNCHANGED <<inputs, mvars, wvars, hvars, rvars, dist, prev, hopCount, visited, pq, pvars>>

\* current && prev[current]
HasPrev(pr, c) == c # Null /\ Has(pr, c) /\ pr[c] # Null

\* edge.kind || 'swap'
KindOf(edge) == IF edge.kind = "" THEN "swap" ELSE edge.kind

\* the step path reconstruction records for the hop prevToken -> c
StepOf(prevToken, c, edge) ==
    [from |-> prevToken, to |-> c, weight |-> StepWeight(edge),
     kind |-> KindOf(edge), details |-> edge]

\* steps.push in place of steps.unshift
WalkStepsPush(g, pr, c, st) ==
    LET prevToken == pr[c]
        k == FindEdge(Adj(g, prevToken), c)
    IN  IF Has(g, prevToken) /\ k # 0
        THEN st \o <<StepOf(prevToken, c, g[prevToken][k])>>
        ELSE st

\* steps after one iteration of the back-walk
WalkSteps(g, pr, c, st) ==
    LET prevToken == pr[c]
        k == FindEdge(Adj(g, prevToken), c)
    IN  IF Has(g, prevToken) /\ k # 0
        THEN <<StepOf(prevToken, c, g[prevToken][k])>> \o st
        ELSE st

ClassicWalk ==
    /\ pc = "classic" /\ cpc = "walk"
    /\ HasPrev(prev, current) /\ Len(path) < MaxWalk
    /\ path' = <<current>> \o path
    /\ steps' = WalkSteps(graph, prev, current, steps)
    /\ current' = prev[current]
    /\ UNCHANGED <<inputs, mvars, wvars, hvars, rvars, pc, cpc, dist, prev, hopCount, visited, pq, classicResult, pvars>>

\* the last path.unshift(current) left out
FinalPathWithoutLast(c, p) == p

\* if (current) path.unshift(current)
FinalPath(c, p) == (IF c # Null THEN <<c>> ELSE <<>>) \o p

TotalWeight(d, t) == IF Has(d, t) THEN d[t] ELSE Undefined

\* Math.exp(-dist[target]), NaN when dist[target] is undefined
EstimatedOutput(d, t) == IF Has(d, t) THEN Exp(d[t]) ELSE NaN

RouteOf(p, d, t, st) ==
    [status |-> "route", path |-> p, totalWeight |-> TotalWeight(d, t),
     estimatedOutput |-> EstimatedOutput(d, t), steps |-> st]

ClassicReturn ==
    /\ pc = "classic" /\ cpc = "walk"
    /\ ~HasPrev(prev, current)
    /\ path' = FinalPath(current, path)
    /\ classicResult' = RouteOf(path', dist, target, steps)
    /\ cpc' = "done" /\ pc' = "psb"
    /\ UNCHANGED <<inputs, mvars, wvars, hvars, rvars, dist, prev, hopCount, visited, pq, current, steps, pvars>>

ClassicNext ==
    \/ ClassicStart
    \/ ClassicIter
    \/ ClassicLoopEnd
    \/ ClassicCheck
    \/ ClassicWalk
    \/ ClassicReturn

-----------------------------------------------------------------------------
(* psbDijkstra *)

\* A Set of the code that is iterated is a sequence without repetitions, in
\* insertion order
InSeq(s, x) == \E i \in 1 .. Len(s) : s[i] = x

SetAdd(s, x) == IF InSeq(s, x) THEN s ELSE Append(s, x)

RECURSIVE SetAddAll(_, _, _)
SetAddAll(s, xs, i) == IF i > Len(xs) THEN s ELSE SetAddAll(SetAdd(s, xs[i]), xs, i + 1)

Range(s) == {s[i] : i \in 1 .. Len(s)}

Max(a, b) == IF a >= b THEN a ELSE b
Min(a, b) == IF a <= b THEN a ELSE b

\* Number of entries of the increasing sequence th that are <= n
RECURSIVE CountUpTo(_, _, _)
CountUpTo(th, n, i) ==
    IF i > Len(th) \/ th[i] > n THEN i - 1 ELSE CountUpTo(th, n, i + 1)

\* floor(log2(n)^(1/3)) >= m  iff  n >= 2^(m^3)
CbrtLog2Steps == <<2, 256, 134217728>>
\* floor(log2(n)^(2/3)) >= m  iff  n >= 2^(m^(3/2)), rounded up
Pow23Log2Steps == <<2, 8, 37, 256, 2321>>
\* ln(n) <= j  iff  n <= floor(e^j)
ExpFloor == <<2, 7, 20, 54, 148, 403, 1096, 2980>>

PsbN(g) == Cardinality(DOMAIN g)
PsbK(n) == Max(2, CountUpTo(CbrtLog2Steps, n, 1))
PsbT(n) == Max(2, CountUpTo(Pow23Log2Steps, n, 1))

\* Math.ceil(Math.log(n) / t): the least L with ln(n) <= L * t
RECURSIVE CeilLnOver(_, _, _)
CeilLnOver(n, t, L) ==
    IF n <= 1 \/ (L > 0 /\ n <= ExpFloor[L * t]) THEN L ELSE CeilLnOver(n, t, L + 1)

\* a recursion depth that the maxHops argument caps
MaxLevelCapped(n) == Min(CeilLnOver(n, PsbT(n), 0), psbMaxHops - 1)

MaxLevel(n) == CeilLnOver(n, PsbT(n), 0)

k == PsbK(PsbN(graph))
t == PsbT(PsbN(graph))

NewFrame(level, B, S) ==
    [level |-> level, B |-> B, S |-> S, at |-> "entry",
     W |-> <<>>, Wlast |-> <<>>, li |-> 0,
     P |-> <<>>, U |-> <<>>, Bi |-> B, it |-> 0]

Top == stack[Len(stack)]

SetTop(f) == [stack EXCEPT ![Len(stack)] = f]

Running(at) == pc = "psb" /\ ppc = "run" /\ stack # <<>> /\ Top.at = at

\* initialise dist and prev over the keys; the top-level call of BMSSP
PsbStart ==
    /\ pc = "psb" /\ ppc = "start"
    /\ psbDist' = Put([x \in DOMAIN graph |-> Infinity], source, 0)
    /\ psbPrev' = [x \in DOMAIN graph |-> Null]
    /\ completed' = {}
    /\ stack' = <<NewFrame(MaxLevel(PsbN(graph)), Infinity, <<source>>)>>
    /\ ppc' = "run"
    /\ UNCHANGED <<inputs, mvars, wvars, hvars, rvars, pc, cvars, ret, psbCurrent, psbPath, psbSteps, psbResult>>

\* The frame on top returns r to its caller, or to psbDijkstra
Return(r) ==
    /\ stack' = SubSeq(stack, 1, Len(stack) - 1)
    /\ ret' = r
    /\ ppc' = IF Len(stack) = 1 THEN "check" ELSE "run"

IsBase(f) == f.level = 0 \/ Len(f.S) = 0

\* newDist < dist[v] && newDist < B
BaseImproves(d, v, newDist, B) == Has(d, v) /\ newDist < d[v] /\ newDist < B

baseRelax(st, s, edge, B) ==
    LET v == edge.target
        newDist == FAdd(st.dist[s], RelaxWeight(edge))
    IN  IF BaseImproves(st.dist, v, newDist, B)
        THEN [st EXCEPT !.dist = Put(st.dist, v, newDist), !.prev = Put(st.prev, v, s)]
        ELSE st

RECURSIVE baseEdges(_, _, _, _, _)
baseEdges(st, s, edges, i, B) ==
    IF i > Len(edges) THEN st
    ELSE baseEdges(baseRelax(st, s, edges[i], B), s, edges, i + 1, B)

\* the base case's loop over S
RECURSIVE baseCase(_, _, _, _)
baseCase(st, S, j, B) ==
    IF j > Len(S) THEN st
    ELSE LET s == S[j]
         IN  IF Has(st.dist, s) /\ st.dist[s] < B /\ s \notin st.completed
             THEN baseCase(baseEdges([st EXCEPT !.completed = st.completed \cup {s},
                                                !.local = SetAdd(st.local, s)],
                                     s, Adj(graph, s), 1, B), S, j + 1, B)
             ELSE baseCase(st, S, j + 1, B)

PsbBase ==
    /\ Running("entry") /\ IsBase(Top)
    /\ LET st == baseCase([dist |-> psbDist, prev |-> psbPrev,
                           completed |-> completed, local |-> <<>>], Top.S, 1, Top.B)
       IN  /\ psbDist' = st.dist /\ psbPrev' = st.prev /\ completed' = st.completed
           /\ Return([boundaryReached |-> Top.B, completedVertices |-> st.local])
    /\ UNCHANGED <<inputs, mvars, wvars, hvars, rvars, pc, cvars, psbCurrent, psbPath, psbSteps, psbResult>>

\* findPivots begins: W and W_0 are copies of S
PsbEnter ==
    /\ Running("entry") /\ ~IsBase(Top)
    /\ stack' = SetTop([Top EXCEPT !.W = Top.S, !.Wlast = Top.S, !.li = 1, !.at = "layer"])
    /\ UNCHANGED <<inputs, mvars, wvars, hvars, rvars, pc, cvars, ppc, psbDist, psbPrev, completed, ret,
                   psbCurrent, psbPath, psbSteps, psbResult>>

\* newDist <= dist[v] && newDist < B
LayerImproves(d, v, newDist, B) == Has(d, v) /\ newDist <= d[v] /\ newDist < B

layerRelax(st, u, edge, B) ==
    LET v == edge.target
        newDist == FAdd(st.dist[u], RelaxWeight(edge))
    IN  IF LayerImproves(st.dist, v, newDist, B)
        THEN [dist |-> Put(st.dist, v, newDist), prev |-> Put(st.prev, v, u),
              Wi |-> SetAdd(st.Wi, v), W |-> SetAdd(st.W, v)]
        ELSE st

RECURSIVE layerEdges(_, _, _, _, _)
layerEdges(st, u, edges, i, B) ==
    IF i > Len(edges) THEN st
    ELSE layerEdges(layerRelax(st, u, edges[i], B), u, edges, i + 1, B)

RECURSIVE layer(_, _, _, _)
layer(st, Wprev, j, B) ==
    IF j > Len(Wprev) THEN st
    ELSE layer(layerEdges(st, Wprev[j], Adj(graph, Wprev[j]), 1, B), Wprev, j + 1, B)

\* W.size > k * S.size
TooLarge(W, S) == Len(W) > k * Len(S)

\* one layer of findPivots: relax from W_{i-1}, then the early exit test
PsbLayer ==
    /\ Running("layer")
    /\ LET f == Top
           st == layer([dist |-> psbDist, prev |-> psbPrev, Wi |-> <<>>, W |-> f.W],
                       f.Wlast, 1, f.B)
       IN  /\ psbDist' = st.dist /\ psbPrev' = st.prev
           /\ stack' = SetTop(
                 IF TooLarge(st.W, f.S)
                 THEN [f EXCEPT !.W = st.W, !.Wlast = st.Wi, !.P = f.S, !.at = "mark"]
                 ELSE [f EXCEPT !.W = st.W, !.Wlast = st.Wi, !.li = f.li + 1,
                                !.at = IF f.li + 1 <= k THEN "layer" ELSE "forest"])
    /\ UNCHANGED <<inputs, mvars, wvars, hvars, rvars, pc, cvars, ppc, completed, ret,
                   psbCurrent, psbPath, psbSteps, psbResult>>

\* (u, v) is an edge of the forest F
InForest(d, pr, u, edge) ==
    /\ Has(d, edge.target) /\ Has(d, u)
    /\ d[edge.target] = FAdd(d[u], RelaxWeight(edge))
    /\ Has(pr, edge.target) /\ pr[edge.target] = u

\* forest[u]: the children of u, in the order the edges of u add them
RECURSIVE children(_, _, _, _)
children(W, u, edges, i) ==
    IF i > Len(edges) THEN <<>>
    ELSE LET rest == children(W, u, edges, i + 1)
             v == edges[i].target
         IN  IF InSeq(W, v) /\ InForest(psbDist, psbPrev, u, edges[i])
             THEN SetAddAll(<<v>>, rest, 1)
             ELSE rest

Forest(W) == [u \in Range(W) |-> children(W, u, Adj(graph, u), 1)]

\* countSubtree(v, visited): [count, visited]
RECURSIVE countSubtree(_, _, _)
RECURSIVE countChildren(_, _, _, _)
countSubtree(forest, v, seen) ==
    IF v \in seen THEN [count |-> 0, visited |-> seen]
    ELSE LET r == countChildren(forest, IF Has(forest, v) THEN forest[v] ELSE <<>>, 1,
                                seen \cup {v})
         IN  [count |-> 1 + r.count, visited |-> r.visited]
countChildren(forest, ch, i, seen) ==
    IF i > Len(ch) THEN [count |-> 0, visited |-> seen]
    ELSE LET a == countSubtree(forest, ch[i], seen)
             b == countChildren(forest, ch, i + 1, a.visited)
         IN  [count |-> a.count + b.count, visited |-> b.visited]

\* a variant that takes every root as a pivot, whatever its subtree
IsPivotAlways(forest, u) == TRUE

IsPivot(forest, u) == countSubtree(forest, u, {}).count >= k

\* a variant that also takes the children of the first root as pivots
PivotsAndChildren(forest, S) ==
    IF Len(S) > 0 /\ Has(forest, S[1]) THEN SetAddAll(S, forest[S[1]], 1) ELSE S

Pivots(forest, S) == SelectSeq(S, LAMBDA u : IsPivot(forest, u))

\* after k layers: the forest and the pivots
PsbForest ==
    /\ Running("forest")
    /\ stack' = SetTop([Top EXCEPT !.P = Pivots(Forest(Top.W), Top.S), !.at = "mark"])
    /\ UNCHANGED <<inputs, mvars, wvars, hvars, rvars, pc, cvars, ppc, psbDist, psbPrev, completed, ret,
                   psbCurrent, psbPath, psbSteps, psbResult>>

BelowBound(d, v, B) == Has(d, v) /\ d[v] < B

\* BMSSP after findPivots: complete the vertices of W below B; U, Bi, i
PsbMark ==
    /\ Running("mark")
    /\ completed' = completed \cup {v \in Range(Top.W) : BelowBound(psbDist, v, Top.B)}
    /\ stack' = SetTop([Top EXCEPT !.U = Top.W, !.Bi = Top.B, !.it = 0, !.at = "loop"])
    /\ UNCHANGED <<inputs, mvars, wvars, hvars, rvars, pc, cvars, ppc, psbDist, psbPrev, ret,
                   psbCurrent, psbPath, psbSteps, psbResult>>

\* the condition of the while loop over the pivots
LoopCond(f) ==
    /\ Len(f.U) < k * Pow2(f.level * t)
    /\ Len(f.P) > 0
    /\ f.it < Pow2(t)

\* one iteration up to the recursive call: pull Si from P and call BMSSP
PsbRecurse ==
    /\ Running("loop") /\ LoopCond(Top)
    /\ LET f == Top
           targetSize == Min(Len(f.P), Pow2((f.level - 1) * t))
           Si == SubSeq(f.P, 1, targetSize)
       IN  stack' = Append(SetTop([f EXCEPT !.it = f.it + 1,
                                            !.P = SubSeq(f.P, targetSize + 1, Len(f.P)),
                                            !.at = "resume"]),
                           NewFrame(f.level - 1, f.Bi, Si))
    /\ UNCHANGED <<inputs, mvars, wvars, hvars, rvars, pc, cvars, ppc, psbDist, psbPrev, completed, ret,
                   psbCurrent, psbPath, psbSteps, psbResult>>

\* newDist <= dist[v]
ResumeImproves(d, v, newDist) == Has(d, v) /\ newDist <= d[v]

resumeRelax(st, u, edge) ==
    LET v == edge.target
        newDist == FAdd(st.dist[u], RelaxWeight(edge))
    IN  IF ResumeImproves(st.dist, v, newDist)
        THEN [dist |-> Put(st.dist, v, newDist), prev |-> Put(st.prev, v, u)]
        ELSE st

RECURSIVE resumeEdges(_, _, _, _)
resumeEdges(st, u, edges, i) ==
    IF i > Len(edges) THEN st
    ELSE resumeEdges(resumeRelax(st, u, edges[i]), u, edges, i + 1)

RECURSIVE resumeAll(_, _, _)
resumeAll(st, Ui, j) ==
    IF j > Len(Ui) THEN st
    ELSE resumeAll(resumeEdges(st, Ui[j], Adj(graph, Ui[j]), 1), Ui, j + 1)

\* dist[target] < Bi
TargetBelow(d, Bi) == Has(d, target) /\ d[target] < Bi

\* the rest of the iteration after the recursive call returned
PsbResume ==
    /\ Running("resume")
    /\ LET f == Top
           Ui == ret.completedVertices
           st == resumeAll([dist |-> psbDist, prev |-> psbPrev], Ui, 1)
           U == SetAddAll(f.U, Ui, 1)
           Bi == Min(f.Bi, ret.boundaryReached)
       IN  /\ completed' = completed \cup Range(Ui)
           /\ psbDist' = st.dist /\ psbPrev' = st.prev
           /\ IF TargetBelow(st.dist, Bi)
              THEN Return([boundaryReached |-> Bi, completedVertices |-> U])
              ELSE /\ stack' = SetTop([f EXCEPT !.U = U, !.Bi = Bi, !.at = "loop"])
                   /\ UNCHANGED <<ret, ppc>>
    /\ UNCHANGED <<inputs, mvars, wvars, hvars, rvars, pc, cvars, psbCurrent, psbPath, psbSteps, psbResult>>

\* the while loop ends: BMSSP returns (Bi, U)
PsbLoopEnd ==
    /\ Running("loop") /\ ~LoopCond(Top)
    /\ Return([boundaryReached |-> Top.Bi, completedVertices |-> Top.U])
    /\ UNCHANGED <<inputs, mvars, wvars, hvars, rvars, pc, cvars, psbDist, psbPrev, completed,
                   psbCurrent, psbPath, psbSteps, psbResult>>

PsbCheck ==
    /\ pc = "psb" /\ ppc = "check"
    /\ IF Unreached(psbDist, target)
       THEN /\ psbResult' = NoRouteFound
            /\ ppc' = "done" /\ pc' = "done"
            /\ UNCHANGED <<psbCurrent, psbPath, psbSteps>>
       ELSE /\ psbCurrent' = target /\ psbPath' = <<>> /\ psbSteps' = <<>>
            /\ ppc' = "walk"
            /\ UNCHANGED <<psbResult, pc>>
    /\ UNCHANGED <<inputs, mvars, wvars, hvars, rvars, cvars, psbDist, psbPrev, completed, stack, ret>>

\* path and steps grow at the front on every iteration; the model keeps
\* their MaxWalk newest entries
Newest(s) == SubSeq(s, 1, Min(Len(s), MaxWalk))

PsbWalk ==
    /\ pc = "psb" /\ ppc = "walk"
    /\ HasPrev(psbPrev, psbCurrent)
    /\ psbPath' = Newest(<<psbCurrent>> \o psbPath)
    /\ psbSteps' = Newest(WalkSteps(graph, psbPrev, psbCurrent, psbSteps))
    /\ psbCurrent' = psbPrev[psbCurrent]
    /\ UNCHANGED <<inputs, mvars, wvars, hvars, rvars, pc, cvars, ppc, psbDist, psbPrev, completed, stack, ret, psbResult>>

PsbReturn ==
    /\ pc = "psb" /\ ppc = "walk"
    /\ ~HasPrev(psbPrev, psbCurrent)
    /\ psbPath' = FinalPath(psbCurrent, psbPath)
    /\ psbResult' = RouteOf(psbPath', psbDist, target, psbSteps)
    /\ ppc' = "done" /\ pc' = "done"
    /\ UNCHANGED <<inputs, mvars, wvars, hvars, rvars, cvars, psbDist, psbPrev, completed, stack, ret,
                   psbCurrent, psbSteps>>

\* psbDijkstra is called once more on the same graph, source and target with
\* another maxHops; the outcome of the first call is kept in psbFirst
PsbAgain ==
    /\ pc = "done" /\ psbFirst = Pending
    /\ \E h \in Hops \ {psbMaxHops} : psbMaxHops' = h
    /\ psbFirst' = psbResult
    /\ psbResult' = Pending
    /\ pc' = "psb" /\ ppc' = "start"
    /\ psbDist' = <<>> /\ psbPrev' = <<>> /\ completed' = {}
    /\ stack' = <<>> /\ ret' = [boundaryReached |-> Infinity, completedVertices |-> <<>>]
    /\ psbCurrent' = Null /\ psbPath' = <<>> /\ psbSteps' = <<>>
    /\ UNCHANGED <<inputs, mvars, wvars, hvars, cvars>>

PsbNext ==
    \/ PsbAgain
    \/ PsbStart
    \/ PsbBase
    \/ PsbEnter
    \/ PsbLayer
    \/ PsbForest
    \/ PsbMark
    \/ PsbRecurse
    \/ PsbResume
    \/ PsbLoopEnd
    \/ PsbCheck
    \/ PsbWalk
    \/ PsbReturn

Next == ClassicNext \/ PsbNext

Spec == Init /\ [][Next]_vars

-----------------------------------------------------------------------------
(* A MinHeap on its own: pq = new MinHeap(), then any calls of insert (with a *)
(* key that is not in the heap), extractMin and decreaseKey                 *)

Priorities == -1 .. MaxPriority

\* the keys stored in the heap array
HeapKeys(h) == {h.heap[i].token : i \in 1 .. Len(h.heap)}

HeapInit ==
    /\ graph = [x \in Tokens |-> <<>>]
    /\ source = "A" /\ target = "A" /\ maxHops = 1 /\ psbMaxHops = 1
    /\ pc = "heap"
    /\ Idle

HeapInsert ==
    /\ pc = "heap"
    /\ \E token \in Tokens \ HeapKeys(pq), d \in Priorities :
          /\ pq' = insert(pq, token, d)
          /\ call' = [op |-> "insert", token |-> token, dist |-> d]
    /\ before' = pq
    /\ returned' = Void
    /\ UNCHANGED <<inputs, mvars, wvars, rvars, pc, cpc, dist, prev, hopCount, visited,
                   current, path, steps, classicResult, pvars>>

HeapExtractMin ==
    /\ pc = "heap"
    /\ LET r == extractMin(pq)
       IN  /\ pq' = r.pq
           /\ returned' = [none |-> r.none, min |-> r.min]
    /\ call' = [op |-> "extractMin", token |-> Null, dist |-> 0]
    /\ before' = pq
    /\ UNCHANGED <<inputs, mvars, wvars, rvars, pc, cpc, dist, prev, hopCount, visited,
                   current, path, steps, classicResult, pvars>>

HeapDecreaseKey ==
    /\ pc = "heap"
    /\ \E token \in Tokens, d \in Priorities :
          /\ pq' = decreaseKey(pq, token, d)
          /\ call' = [op |-> "decreaseKey", token |-> token, dist |-> d]
    /\ before' = pq
    /\ returned' = Void
    /\ UNCHANGED <<inputs, mvars, wvars, rvars, pc, cpc, dist, prev, hopCount, visited,
                   current, path, steps, classicResult, pvars>>

HeapNext == HeapInsert \/ HeapExtractMin \/ HeapDecreaseKey

HeapSpec == HeapInit /\ [][HeapNext]_vars

-----------------------------------------------------------------------------
(* What the claims speak of *)

Keys == DOMAIN graph

KeysGiven == source \in Keys /\ target \in Keys

EdgesOf(g) == UNION {Range(g[u]) : u \in DOMAIN g}

PositiveRates == \A e \in EdgesOf(graph) : e.rate > 0

NonNegativeWeights == \A e \in EdgesOf(graph) : RelaxWeight(e) >= 0

NoParallelEdges ==
    \A u \in Keys : \A i, j \in 1 .. Len(graph[u]) :
        graph[u][i].target = graph[u][j].target => i = j

\* among the parallel edges of a pair the first one weighs least
FirstEdgeIsBest ==
    \A u \in Keys : \A i, j \in 1 .. Len(graph[u]) :
        (i < j /\ graph[u][i].target = graph[u][j].target)
            => RelaxWeight(graph[u][i]) <= RelaxWeight(graph[u][j])

Vertices == Keys \cup {source, target} \cup {e.target : e \in EdgesOf(graph)}

\* <<u, i>>: the i-th edge of graph[u]
EdgeSlots == UNION {{<<u, i>> : i \in 1 .. Len(graph[u])} : u \in Keys}

MinOf(S) == CHOOSE x \in S : \A y \in S : x <= y

\* The least weight of a walk of at most h edges from the source to v,
\* Infinity when there is none
RECURSIVE Best(_)
Best(h) ==
    IF h = 0 THEN [v \in Vertices |-> IF v = source THEN 0 ELSE Infinity]
    ELSE LET b == Best(h - 1)
         IN  [v \in Vertices |->
                MinOf({b[v]} \cup
                      {FAdd(b[x[1]], RelaxWeight(graph[x[1]][x[2]])) :
                          x \in {y \in EdgeSlots : graph[y[1]][y[2]].target = v}})]

\* The vertices a walk of at most h edges from the source reaches
RECURSIVE Reach(_)
Reach(h) ==
    IF h = 0 THEN {source}
    ELSE LET r == Reach(h - 1)
         IN  r \cup {e.target : e \in UNION {Range(Adj(graph, u)) : u \in r}}

ClassicReturned == classicResult.status = "route"
ClassicFailed == classicResult.status = "error"
PsbReturned == psbResult.status = "route"
PsbFailed == psbResult.status = "error"

RECURSIVE SumWeights(_, _)
SumWeights(st, i) == IF i > Len(st) THEN 0 ELSE FAdd(st[i].weight, SumWeights(st, i + 1))

\* the path of a route begins at the source and ends at the target
Endpoints(r) ==
    /\ Len(r.path) > 0
    /\ r.path[1] = source
    /\ r.path[Len(r.path)] = target

\* consecutive vertices of the path of a route are joined by an edge
Adjacent(r) ==
    \A i \in 1 .. Len(r.path) - 1 :
        \E e \in Range(Adj(graph, r.path[i])) : e.target = r.path[i + 1]

\* one step per hop of the path, from path[i] to path[i + 1]
StepsMatch(r) ==
    /\ Len(r.steps) = Len(r.path) - 1
    /\ \A i \in 1 .. Len(r.steps) :
          r.steps[i].from = r.path[i] /\ r.steps[i].to = r.path[i + 1]

WeightSum(r) == SumWeights(r.steps, 1) = r.totalWeight

InvalidInput == [status |-> "error", error |-> "InvalidInput"]

\* the target can be reached from the source at all
Reachable == target \in Reach(Cardinality(Vertices))

-----------------------------------------------------------------------------
(* The claims *)

\* C1: on a graph with positive rates, with source and target keys and a hop
\* cap that cannot bind (maxHops >= |V| - 1), classicDijkstra and psbDijkstra
\* both return a route and the two routes have equal totalWeight.  Stated
\* for the targets a path reaches, where a route exists to be returned, and
\* for the graphs without an edge of negative weight, where Dijkstra's
\* algorithm is exact.
C1_SolversAgree ==
    (/\ pc = "done" /\ PositiveRates /\ NonNegativeWeights /\ KeysGiven
     /\ maxHops >= Cardinality(Keys) - 1 /\ Reachable)
        => /\ ClassicReturned /\ PsbReturned
           /\ classicResult.totalWeight = psbResult.totalWeight

\* C2: on a graph whose edge weights are all nonnegative, the totalWeight of
\* a route classicDijkstra returns is the least total weight of a directed
\* path from source to target of at most maxHops edges.
C2_ClassicOptimalWithinHops ==
    (ClassicReturned /\ NonNegativeWeights /\ KeysGiven)
        => classicResult.totalWeight = Best(maxHops)[target]

\* C3: with source and target keys, classicDijkstra fails with the no-route
\* error exactly when no directed path of at most maxHops edges leads from
\* source to target, and returns a route otherwise.  Stated for the graphs
\* with positive rates: an edge of rate <= 0 is one the solver may treat as
\* unusable.
C3_ClassicFailsIffUnreachable ==
    (cpc = "done" /\ KeysGiven /\ PositiveRates)
        => /\ ClassicFailed <=> target \notin Reach(maxHops)
           /\ ClassicReturned <=> target \in Reach(maxHops)

\* C4: with source and target keys, psbDijkstra fails with the no-route error
\* only when no directed path at all leads from source to target.
C4_PsbFailsOnlyIfUnreachable ==
    (ppc = "done" /\ KeysGiven /\ PsbFailed) => ~Reachable

\* C5: when source or target is not a key of the graph, each solver fails
\* with InvalidInput, an error distinct from NoRouteFound; neither returns a
\* RouteResult.
C5_InvalidInputRaised ==
    ~KeysGiven
        => /\ cpc = "done" => classicResult = InvalidInput
           /\ ppc = "done" => psbResult = InvalidInput

\* C6: on a graph with positive rates, with source and target keys, the path
\* of every route either solver returns is non-empty, begins at source and
\* ends at target.
C6_Endpoints ==
    (PositiveRates /\ KeysGiven)
        => /\ ClassicReturned => Endpoints(classicResult)
           /\ PsbReturned => Endpoints(psbResult)

C6_Witness ==
    /\ PositiveRates /\ KeysGiven
    /\ ClassicReturned /\ PsbReturned
    /\ Len(classicResult.path) = 3 /\ Len(psbResult.path) = 3

\* C7: in every route either solver returns, each consecutive pair
\* path[i], path[i + 1] is joined by an edge of graph[path[i]].
C7_ConsecutiveAdjacency ==
    /\ ClassicReturned => Adjacent(classicResult)
    /\ PsbReturned => Adjacent(psbResult)

C7_Witness ==
    /\ ClassicReturned /\ PsbReturned
    /\ Len(classicResult.path) = 3 /\ Len(psbResult.path) >= 2
    /\ classicResult.path # psbResult.path

\* C8: in every RouteResult either solver returns, the number of steps is the
\* number of path vertices minus one, and step i goes from path[i] to
\* path[i + 1].
C8_StepsFollowPath ==
    /\ ClassicReturned => StepsMatch(classicResult)
    /\ PsbReturned => StepsMatch(psbResult)

C8_Witness ==
    /\ ClassicReturned /\ PsbReturned
    /\ Len(classicResult.steps) = 2 /\ Len(psbResult.steps) = 2
    /\ classicResult.steps[1].kind = "swap" /\ classicResult.steps[2].kind = "bridge"

C10_HopCap == ClassicReturned => Len(classicResult.steps) <= maxHops

\* a route of exactly maxHops steps where a longer path would weigh less
C10_Witness ==
    /\ ClassicReturned /\ KeysGiven
    /\ Len(classicResult.steps) = maxHops
    /\ Best(maxHops + 1)[target] < classicResult.totalWeight

\* the route from a vertex to itself
TrivialRoute ==
    [status |-> "route", path |-> <<source>>, totalWeight |-> 0,
     estimatedOutput |-> <<1, 1>>, steps |-> <<>>]

\* C11: when source = target and source is a key, each solver returns the
\* trivial route: path = [source], totalWeight = 0, estimatedOutput = 1 and
\* no steps, whatever edges the graph has; the back-walk from the target has
\* no predecessor to follow.  Stated for the graphs without an edge of
\* negative weight, whose cycles through the source gain nothing.
C11_TrivialRoute ==
    (source = target /\ source \in Keys /\ NonNegativeWeights)
        => /\ cpc = "done" => classicResult = TrivialRoute
           /\ ppc = "done" => psbResult = TrivialRoute
           /\ cpc = "walk" => ~HasPrev(prev, current)
           /\ ppc = "walk" => ~HasPrev(psbPrev, psbCurrent)

\* C12: on the graph A -> B -> C -> D -> E (each rate 10) with the direct
\* edge A -> E (rate 100), source A and target E, classicDijkstra returns
\* [A, E] of weight -ln 100 with maxHops = 2 and [A, B, C, D, E] of weight
\* -ln 10000 with maxHops = 4.  Weights are in units of ln 10.
C12_HopCapPrunes ==
    (graph = PruneGraph /\ source = "A" /\ target = "E" /\ cpc = "done")
        => /\ ClassicReturned
           /\ maxHops = 2 => /\ classicResult.path = <<"A", "E">>
                             /\ classicResult.totalWeight = -2
           /\ maxHops = 4 => /\ classicResult.path = <<"A", "B", "C", "D", "E">>
                             /\ classicResult.totalWeight = -4

\* the route along the whole chain, its weight the sum of the edge weights
LinearRoute(r) ==
    /\ r.status = "route"
    /\ r.path = <<"A", "B", "C", "D">>
    /\ r.totalWeight = RelaxWeight(LinearGraph["A"][1]) + RelaxWeight(LinearGraph["B"][1])
                           + RelaxWeight(LinearGraph["C"][1])

\* C13: on the chain A -> B (rate 2), B -> C (rate 3), C -> D (rate 5), gas
\* 0, with source A, target D and maxHops = 4, each solver returns the path
\* [A, B, C, D] with totalWeight the sum of the three edge weights.
C13_LinearChain ==
    (graph = LinearGraph /\ source = "A" /\ target = "D" /\ maxHops = 4)
        => /\ cpc = "done" => LinearRoute(classicResult)
           /\ ppc = "done" => LinearRoute(psbResult)

\* the edges of graph[u] to v, by their place in adjacency order
EdgesTo(u, v) == {i \in 1 .. Len(Adj(graph, u)) : graph[u][i].target = v}

\* every step records the first edge of graph[path[i]] to path[i + 1]
FirstEdgeRecorded(r) ==
    \A i \in 1 .. Len(r.steps) :
        /\ i < Len(r.path)
        /\ EdgesTo(r.path[i], r.path[i + 1]) # {}
        /\ LET e == graph[r.path[i]][MinOf(EdgesTo(r.path[i], r.path[i + 1]))]
           IN  r.steps[i].details = e /\ r.steps[i].kind = e.kind

\* C14: in every route either solver returns, steps[i].details and its kind
\* are those of the first edge of graph[path[i]], in adjacency order, whose
\* target is path[i + 1], also when a later parallel edge weighs less and
\* determined the distance.
C14_FirstEdgeRecorded ==
    /\ ClassicReturned => FirstEdgeRecorded(classicResult)
    /\ PsbReturned => FirstEdgeRecorded(psbResult)

\* both solvers return a route whose distance a later parallel edge
\* determined: the steps weigh more than the totalWeight
C14_Witness ==
    /\ ClassicReturned /\ PsbReturned /\ KeysGiven /\ PositiveRates
    /\ ~FirstEdgeIsBest
    /\ Len(classicResult.steps) = 2 /\ Len(psbResult.steps) = 2
    /\ classicResult.totalWeight < SumWeights(classicResult.steps, 1)
    /\ psbResult.totalWeight < SumWeights(psbResult.steps, 1)

\* the priority at parent(i) is <= the priority at i, for every slot i > 0
HeapOrdered(h) ==
    \A i \in 1 .. Len(h.heap) - 1 : At(h, parent(i)).dist <= At(h, i).dist

\* C15: after any sequence of insert, extractMin and decreaseKey calls on a
\* MinHeap (insert only with keys not in the heap), for every slot i > 0
\* the priority at parent(i) is <= the priority at i.
C15_HeapProperty == HeapOrdered(pq)

\* a full heap, in order after a decreaseKey that moved an entry to the root
C15_Witness ==
    /\ Len(pq.heap) = Cardinality(Tokens)
    /\ call.op = "decreaseKey"
    /\ Has(before.positions, call.token) /\ before.positions[call.token] > 2
    /\ pq.positions[call.token] = 0

\* the position map has exactly the keys of the heap array, each mapped to
\* the slot that holds it
PositionsMatch(h) ==
    /\ DOMAIN h.positions = HeapKeys(h)
    /\ \A key \in DOMAIN h.positions :
          /\ h.positions[key] \in 0 .. Len(h.heap) - 1
          /\ At(h, h.positions[key]).token = key

\* C16: after any sequence of insert, extractMin and decreaseKey calls on a
\* MinHeap (insert only with keys not in the heap), the position map has
\* exactly the keys stored in the heap array, positions[key] is the slot
\* that holds key, and an extracted key is no longer in the map.
C16_PositionsMatch ==
    /\ PositionsMatch(pq)
    /\ (call.op = "extractMin" /\ ~returned.none)
          => ~Has(pq.positions, returned.min.token)

\* an extractMin that moved the last entry to the root and then down
C16_Witness ==
    /\ call.op = "extractMin" /\ ~returned.none
    /\ Len(before.heap) = Cardinality(Tokens)
    /\ pq.positions[before.heap[Len(before.heap)].token] > 0

\* the entries of the heap array
Entries(h) == Range(h.heap)

\* C17: extractMin returns null exactly when the heap is empty; otherwise it
\* removes exactly one entry and returns an entry whose priority is the
\* least of all entries that were in the heap, and leaves every other entry,
\* key and priority, in the heap.
C17_ExtractMin ==
    call.op = "extractMin"
        => /\ returned.none <=> Len(before.heap) = 0
           /\ returned.none => pq = before
           /\ ~returned.none =>
                 /\ Len(pq.heap) = Len(before.heap) - 1
                 /\ returned.min \in Entries(before)
                 /\ \A e \in Entries(before) : returned.min.dist <= e.dist
                 /\ Entries(pq) = Entries(before) \ {returned.min}

\* an extractMin from a full heap whose entries have three different
\* priorities
C17_Witness ==
    /\ call.op = "extractMin" /\ ~returned.none
    /\ Len(before.heap) = Cardinality(Tokens)
    /\ Cardinality({e.dist : e \in Entries(before)}) = 3

\* the key of the last call is stored once in the heap array
StoredOnce(h, key) ==
    Cardinality({i \in 1 .. Len(h.heap) : h.heap[i].token = key}) = 1

\* C18: decreaseKey(key, p) inserts key with priority p when key is not in
\* the heap; lowers its priority to p when key is in the heap with a
\* priority q > p; leaves heap array and position map unchanged when
\* p >= q; and never stores the key twice.
C18_DecreaseKey ==
    call.op = "decreaseKey"
        => /\ StoredOnce(pq, call.token)
           /\ HeapKeys(pq) = HeapKeys(before) \cup {call.token}
           /\ IF ~Has(before.positions, call.token)
              THEN At(pq, pq.positions[call.token]).dist = call.dist
              ELSE LET q == At(before, before.positions[call.token]).dist
                   IN  IF call.dist < q
                       THEN /\ At(pq, pq.positions[call.token]).dist = call.dist
                            /\ Entries(pq) \ {[token |-> call.token, dist |-> call.dist]}
                                 = Entries(before) \ {[token |-> call.token, dist |-> q]}
                       ELSE pq = before

\* a decreaseKey that lowered the priority of a key below the root's
C18_Witness ==
    /\ call.op = "decreaseKey"
    /\ Has(before.positions, call.token)
    /\ before.positions[call.token] > 0
    /\ call.dist < At(before, 0).dist
    /\ Len(before.heap) >= 3

\* the same error, or the same path and totalWeight
SameOutcome(r1, r2) ==
    /\ r1.status = r2.status
    /\ r1.status = "error" => r1.error = r2.error
    /\ r1.status = "route" => r1.path = r2.path /\ r1.totalWeight = r2.totalWeight

\* C19: psbDijkstra does not enforce the hop cap: two calls on the same
\* graph, source and target that differ only in maxHops have the same
\* outcome, the same error or the same path and totalWeight.
C19_PsbIgnoresMaxHops ==
    (psbFirst # Pending /\ ppc = "done") => SameOutcome(psbFirst, psbResult)

\* both calls return the same path of more edges than the maxHops of the
\* second call
C19_Witness ==
    /\ psbFirst # Pending /\ ppc = "done"
    /\ psbFirst.status = "route" /\ PsbReturned
    /\ psbResult.path = psbFirst.path
    /\ Len(psbResult.steps) > psbMaxHops

\* following pr from v reaches null (or a vertex without an entry) within n
\* steps
RECURSIVE Ends(_, _, _)
Ends(pr, v, n) ==
    IF v = Null \/ ~Has(pr, v) THEN TRUE
    ELSE IF n = 0 THEN FALSE
    ELSE Ends(pr, pr[v], n - 1)

\* no cycle in pr, and no predecessor of the source
Acyclic(pr) ==
    /\ \A v \in DOMAIN pr : Ends(pr, v, Cardinality(DOMAIN pr))
    /\ Has(pr, source) => pr[source] = Null

\* C20: in both solvers the predecessor map never contains a cycle: in every
\* reachable state of a solve, following prev from any vertex reaches a
\* vertex with prev = null after finitely many steps, and prev[source] stays
\* null, on every graph with positive rates and nonnegative gas, cycles of
\* total weight zero included.  Stated for the graphs without an edge of
\* negative weight.
C20_PrevAcyclic ==
    (PositiveRates /\ NonNegativeWeights)
        => Acyclic(prev) /\ Acyclic(psbPrev)

\* the true shortest-path distance from the source to every vertex
TrueDist == Best(Cardinality(Vertices))

\* C21: in psbDijkstra, whenever a vertex v is added to the completed set,
\* dist[v] at that moment is the true shortest-path distance from source to
\* v, on graphs with nonnegative edge weights.
C21_CompletedIsExact ==
    [][(KeysGiven /\ PositiveRates /\ NonNegativeWeights)
          => \A v \in completed' \ completed :
                Has(psbDist, v) /\ psbDist[v] = TrueDist[v]]_vars

\* the entry of a map as a sequence: empty when the key is absent
EntryOf(f, v) == IF Has(f, v) THEN <<f[v]>> ELSE <<>>

\* C22: in psbDijkstra, once a vertex is in the completed set its dist and
\* prev entries are never changed again for the rest of the call.
C22_CompletedIsFrozen ==
    [][\A v \in completed \cap completed' :
          /\ EntryOf(psbDist', v) = EntryOf(psbDist, v)
          /\ EntryOf(psbPrev', v) = EntryOf(psbPrev, v)]_vars

\* findPivots has returned to the BMSSP call on top of the stack
PivotsReturned == Running("mark")

\* C23: every findPivots(B, S) call returns (P, W) with P a subset of S, S a
\* subset of W and |P| * k <= |W|, on the early return as on the
\* subtree-size return.
C23_PivotsBound ==
    PivotsReturned =>
        /\ Range(Top.P) \subseteq Range(Top.S)
        /\ Range(Top.S) \subseteq Range(Top.W)
        /\ Len(Top.P) * k <= Len(Top.W)

\* the subtree-size return with a pivot: all k layers ran and W stayed small
C23_Witness ==
    /\ PivotsReturned
    /\ Top.li > k
    /\ ~TooLarge(Top.W, Top.S)
    /\ Len(Top.P) > 0

\* the early return, with P = S
C23_EarlyReturn == PivotsReturned /\ TooLarge(Top.W, Top.S) /\ Top.P = Top.S

\* every step of the route carries the relaxation weight of its edge
StepsCarryRelaxWeight(r) ==
    \A i \in 1 .. Len(r.steps) : r.steps[i].weight = RelaxWeight(r.steps[i].details)

\* C24: the weight recorded in each step of a returned route is the weight
\* the solver relaxes the selected edge with: -ln(rate) + gas when rate > 0,
\* MAX_VALUE/2 when the rate is absent or <= 0, for both solvers.
C24_StepWeightIsRelaxWeight ==
    /\ ClassicReturned => StepsCarryRelaxWeight(classicResult)
    /\ PsbReturned => StepsCarryRelaxWeight(psbResult)

\* psbDijkstra on graphs of 2 .. MaxKeys vertices without edges, up to the
\* top-level BMSSP call
KeyCounts == 2 .. MaxKeys
KeysOf(n) == {ToString(i) : i \in 1 .. n}

LevelInit ==
    /\ \E n \in KeyCounts : graph = [x \in KeysOf(n) |-> <<>>]
    /\ source = "1" /\ target = "2" /\ maxHops = 1 /\ psbMaxHops = 1
    /\ pc = "psb"
    /\ Idle

LevelNext == PsbStart

LevelSpec == LevelInit /\ [][LevelNext]_vars

\* ceil(log2(n) / t): the least L with n <= 2^(L * t)
RECURSIVE CeilLog2Over(_, _, _)
CeilLog2Over(n, tt, L) ==
    IF n <= Pow2(L * tt) THEN L ELSE CeilLog2Over(n, tt, L + 1)

\* psbDijkstra has made its top-level BMSSP call
TopCalled == pc = "psb" /\ ppc = "run" /\ Len(stack) >= 1

\* C25: for every vertex count n >= 2 the recursion level psbDijkstra passes
\* to the top-level BMSSP call is ceil(log2(n) / t), with
\* t = max(2, floor(log2(n)^(2/3))).
C25_TopLevelIsCeilLog2 ==
    (TopCalled /\ PsbN(graph) >= 2) =>
        stack[1].level = CeilLog2Over(PsbN(graph), t, 0)

\* The solvers run to completion without interruption: a step that can be
\* taken is eventually taken.
\* the inputs are the three-key graphs with cycles, maxHops at its bound
FairInit ==
    /\ Init
    /\ Input(graph, source, target, maxHops) \in CyclicInputs
    /\ maxHops = MaxHops

FairSpec == FairInit /\ [][Next]_vars /\ WF_vars(Next)

\* psbDijkstra is running
PsbCalled == pc = "psb"
\* psbDijkstra has returned a route or thrown the no-route error
PsbEnded == pc = "done" /\ (PsbReturned \/ PsbFailed)

\* C26: every call of psbDijkstra on a graph with positive rates and
\* nonnegative gas terminates, with a route or with the no-route error,
\* self-loops and zero-weight cycles included.
C26_PsbTerminates ==
    (PsbCalled /\ KeysGiven /\ PositiveRates /\ NonNegativeWeights) ~> PsbEnded

\* the BMSSP calls in progress, outermost first
Calls == IF pc = "psb" /\ ppc = "run" THEN stack ELSE <<>>

\* C27: in every psbDijkstra solve the set S of every BMSSP and findPivots
\* invocation, at every recursion level, is a subset of {source}.
C27_RootsAreSource ==
    \A i \in 1 .. Len(Calls) : Range(Calls[i].S) \subseteq {source}

\* a BMSSP call two levels below the top-level call, rooted at the source
C27_Witness ==
    /\ Len(Calls) = 3
    /\ Calls[3].S = <<source>>
    /\ Calls[1].level = 2 /\ Calls[3].level = 0

-----------------------------------------------------------------------------
(* TransactionMonitor.monitorTransaction *)

\* no solver input is involved in the watchers
NoGraph ==
    /\ graph = [x \in Tokens |-> <<>>]
    /\ source = "A" /\ target = "A" /\ maxHops = 1 /\ psbMaxHops = 1

MonitorInit == NoGraph /\ pc = "monitor" /\ Idle

\* tx.status === '1' ? 'confirmed' : tx.isError ? 'failed' : 'pending'
StatusOf(tx) ==
    IF tx = "confirmed" THEN "confirmed" ELSE IF tx = "failed" THEN "failed" ELSE "pending"

IsTerminal(status) == status = "confirmed" \/ status = "failed"

\* monitorTransaction: setInterval and setTimeout
MonitorStart ==
    /\ pc = "monitor" /\ interval = "none"
    /\ interval' = "set" /\ timeout' = "set"
    /\ UNCHANGED <<inputs, pc, cvars, pvars, rvars, hvars, wvars,
                   ticks, inFlight, txStatus, callbacks>>

\* the interval callback runs and awaits getTransactionStatus
MonitorTick ==
    /\ pc = "monitor" /\ interval = "set" /\ ticks < MaxTicks
    /\ ticks' = ticks + 1
    /\ inFlight' = inFlight + 1
    /\ UNCHANGED <<inputs, pc, cvars, pvars, rvars, hvars, wvars,
                   interval, timeout, txStatus, callbacks>>

\* a getTransactionStatus request settles and its interval callback goes on:
\* with a status, onUpdate and, for a terminal status, clearInterval and
\* onComplete; with a rejection, clearInterval and onError
MonitorSettle ==
    /\ pc = "monitor" /\ inFlight > 0
    /\ inFlight' = inFlight - 1
    /\ \E rejected \in BOOLEAN :
          IF rejected
          THEN /\ interval' = "cleared"
               /\ callbacks' = Append(callbacks, "onError")
          ELSE IF IsTerminal(StatusOf(txStatus))
          THEN /\ interval' = "cleared"
               /\ callbacks' = callbacks \o <<"onUpdate", "onComplete">>
          ELSE /\ callbacks' = Append(callbacks, "onUpdate")
               /\ UNCHANGED interval
    /\ UNCHANGED <<inputs, pc, cvars, pvars, rvars, hvars, wvars,
                   timeout, ticks, txStatus>>

\* the timeout callback: clearInterval and onError
MonitorTimeout ==
    /\ pc = "monitor" /\ timeout = "set"
    /\ timeout' = "fired"
    /\ interval' = "cleared"
    /\ callbacks' = Append(callbacks, "onError")
    /\ UNCHANGED <<inputs, pc, cvars, pvars, rvars, hvars, wvars,
                   ticks, inFlight, txStatus>>

\* the transaction is mined: it succeeds or it fails
TxSettles ==
    /\ pc = "monitor" /\ txStatus = "pending"
    /\ txStatus' \in {"confirmed", "failed"}
    /\ UNCHANGED <<inputs, pc, cvars, pvars, rvars, hvars, wvars,
                   interval, timeout, ticks, inFlight, callbacks>>

MonitorNext == MonitorStart \/ MonitorTick \/ MonitorSettle \/ MonitorTimeout \/ TxSettles

MonitorSpec == MonitorInit /\ [][MonitorNext]_vars

-----------------------------------------------------------------------------
(* BlockscoutAPI.waitForTransaction *)

WaitInit == NoGraph /\ pc = "wait" /\ Idle

\* what one getTransaction gives: a transaction with status '1', one with
\* isError set, one with neither, or a rejection (response not ok)
PollResults == {"success", "isError", "pending", "rejected"}

\* the call, up to the first getTransaction
WaitStart ==
    /\ pc = "wait" /\ wpc = "idle"
    /\ maxAttempts' \in 1 .. MaxAttempts
    /\ attempt' = 0
    /\ wpc' = "poll"
    /\ UNCHANGED <<inputs, pc, cvars, pvars, rvars, hvars, mvars, polled, thrown>>

\* the error the try block throws on a poll result
ErrorOf(r) == IF r = "isError" THEN "Transaction failed" ELSE "Blockscout API error"

\* one getTransaction settles and the loop body runs up to the sleep
WaitPoll ==
    /\ pc = "wait" /\ wpc = "poll"
    /\ \E r \in PollResults :
          /\ polled' = Append(polled, r)
          /\ IF r = "success"
             THEN wpc' = "returned" /\ UNCHANGED thrown
             ELSE IF r \in {"isError", "rejected"} /\ attempt = maxAttempts - 1
             THEN wpc' = "thrown" /\ thrown' = ErrorOf(r)
             ELSE wpc' = "sleep" /\ UNCHANGED thrown
    /\ UNCHANGED <<inputs, pc, cvars, pvars, rvars, hvars, mvars, maxAttempts, attempt>>

\* the sleep ends: i++ and the loop test
WaitSleep ==
    /\ pc = "wait" /\ wpc = "sleep"
    /\ attempt' = attempt + 1
    /\ IF attempt + 1 < maxAttempts
       THEN wpc' = "poll" /\ UNCHANGED thrown
       ELSE wpc' = "thrown" /\ thrown' = "Transaction timeout"
    /\ UNCHANGED <<inputs, pc, cvars, pvars, rvars, hvars, mvars, maxAttempts, polled>>

WaitNext == WaitStart \/ WaitPoll \/ WaitSleep

WaitSpec == WaitInit /\ [][WaitNext]_vars

-----------------------------------------------------------------------------

Terminal == {"onComplete", "onError"}

\* C28: for one monitorTransaction call, once onComplete or onError has been
\* invoked no further callback is invoked, under every interleaving of the
\* polling timer, the status requests in flight and the timeout timer.
C28_TerminalIsLast ==
    \A j \in 1 .. Len(callbacks) : callbacks[j] \in Terminal => j = Len(callbacks)

\* C29: as soon as a poll of waitForTransaction gives a transaction with
\* isError set, the call rejects with the 'Transaction failed' error and
\* polls no further, whichever attempt saw the failure.
C29_FailureEndsWait ==
    \A j \in 1 .. Len(polled) :
        polled[j] = "isError" =>
            /\ j = Len(polled)
            /\ wpc = "thrown" /\ thrown = "Transaction failed"

\* classicDijkstra is at the top of its main loop
AtClassicLoop == pc = "classic" /\ cpc = "loop"

\* C30: at every iteration of classicDijkstra's main loop each vertex occurs
\* at most once in the heap, every heap entry's priority is the current dist
\* of its vertex, and no visited vertex is in the heap.
C30_HeapMatchesDist ==
    AtClassicLoop =>
        \A e \in Entries(pq) :
            /\ StoredOnce(pq, e.token)
            /\ Has(dist, e.token) /\ e.dist = dist[e.token]
            /\ e.token \notin visited

\* two vertices are visited, two more wait in the heap, and one of those has
\* a predecessor other than the source
C30_Witness ==
    /\ AtClassicLoop
    /\ Cardinality(visited) >= 2
    /\ Len(pq.heap) >= 2
    /\ \E e \in Entries(pq) : prev[e.token] # source

====
